---------------------------- MODULE Spec2Model ----------------------------
(*************************************************************************)
(* A model of blockchain.ts: the MerkleTree root computation and the     *)
(* Reader / Writer byte cursors.                                         *)
(*                                                                       *)
(* Byte sequences (Uint8Array, Buffer) are TLA+ sequences of 0..255.     *)
(* TypeScript indexes from 0, TLA+ from 1: buffer[k] is written          *)
(* buffer[k + 1] here.                                                   *)
(*************************************************************************)
EXTENDS Integers, Sequences, FiniteSets, TLC

(*************************************************************************)
(* Bounds of the model.                                                  *)
(*************************************************************************)
MaxLeaves == 5

MaxMutations == 1

MaxCalls == 2

MaxBufLen == 9

MaxOps == 2

MaxMoves == 1

MaxFields == 2

MaxGets == 3

MaxSets == 1

MaxStores == 1

(*************************************************************************)
(* Values shared by both parts.                                          *)
(*************************************************************************)
\* The value "undefined" of a field that holds a byte sequence.
Undefined == << -1 >>

\* The default size used whatever size is asked for.
Zeros_DefaultSize(n) == [j \in 1..32 |-> 0]

\* new Uint8Array(n): n zero bytes.
Zeros(n) == [j \in 1..n |-> 0]

\* Buffer.concat([a, b])
Concat(a, b) == a \o b

\* What a read returns: nothing yet, undefined, a number, or a view.
NoResult == [tag |-> "none", val |-> <<>>, from |-> 0, to |-> 0]

UndefinedResult == [tag |-> "undefined", val |-> <<>>, from |-> 0, to |-> 0]

NumResult(v) == [tag |-> "num", val |-> v, from |-> 0, to |-> 0]

\* A Uint8Array view of bytes from..to-1 (0-based) of the underlying buffer.
ViewResult(a, b) == [tag |-> "view", val |-> <<>>, from |-> a, to |-> b]

NoOp == [name |-> "none", width |-> 0, before |-> 0, after |-> 0]

\* No write made yet: the record of a write holds its name, the offset it
\* began at, the number of bytes it covers, and its arguments.
NoWrite == [name |-> "none", width |-> 0, before |-> 0, val |-> <<>>,
            index |-> 0, indexGiven |-> FALSE]

\* No byte stored by the caller yet.
NoStore == [kind |-> "none", at |-> 0, val |-> 0, ops |-> 0]

\* No call made yet since the offset was last set.
NoRun == [start |-> 0, sum |-> 0, fit |-> TRUE]

\* No getBuffer() call made yet.
NoGet == [before |-> Undefined, called |-> FALSE, hook |-> Undefined,
          stored |-> Undefined, ret |-> Undefined]

(*************************************************************************)
(* MerkleTree: inputs.                                                   *)
(*************************************************************************)
DEFAULT_HASH_SIZE == 32

\* The hash sizes the tests construct trees with: the default and 64.
HashSizes == {DEFAULT_HASH_SIZE, 64}

\* The tests' leaf "000102030405060708090A0B0C0D0E0F" twice (32 bytes).
TestHash == [j \in 1..DEFAULT_HASH_SIZE |-> (j - 1) % 16]

\* The tests' leaf hash_test: the same with a first byte of FF.
TestHashFF == [j \in 1..DEFAULT_HASH_SIZE |-> IF j = 1 THEN 255 ELSE (j - 1) % 16]

Leaves == {TestHash, TestHashFF}

\* The tests' fakeHashFunction: byte i of the result is the sum of bytes i
\* and i + len/2 of the input, stored in a Uint8Array (so modulo 256).
fakeHashFunction(h) ==
    [j \in 1..(Len(h) \div 2) |-> (h[j] + h[j + (Len(h) \div 2)]) % 256]

\* A second injected function, sensitive to the order of the two halves.
weightedHashFunction(h) ==
    [j \in 1..(Len(h) \div 2) |-> (h[j] + 2 * h[j + (Len(h) \div 2)] + 1) % 256]

HashFunctions == {"fake", "weighted"}

\* this.hashFunction(h) for the injected function named fn.
ApplyHash(fn, h) ==
    IF fn = "fake" THEN fakeHashFunction(h) ELSE weightedHashFunction(h)

\* All lists of at most n leaves.
LeafLists(n) == UNION {[1..k -> Leaves] : k \in 0..n}

VARIABLES
    hashes,        \* MerkleTree.hashes: the caller's list of leaves
    hashFunction,  \* MerkleTree.hashFunction (the name of the injected one)
    hashSize,      \* MerkleTree.hashSize
    merkleRoot,    \* MerkleTree.merkleRoot
    mpc,           \* position: "ctor", "while", "for", "ready"
    workHashes,    \* the local copy `hashes` of computeMerkleRoot
    loopI,         \* the loop variable i of computeMerkleRoot
    passStart,     \* workHashes when the current pass of the for loop began
    passes,        \* number of passes of the while loop begun
    hashCalls,     \* number of invocations of hashFunction
    ctorHashes,    \* the list the constructor was given
    ctorHashCalls, \* hashCalls when the constructor returned, NotYet before
    rets,          \* what the getRoot() calls after construction returned
    nMut           \* number of external mutations of the leaf list

mvars == <<hashes, hashFunction, hashSize, merkleRoot, mpc, workHashes, loopI,
           passStart, passes, hashCalls, ctorHashes, ctorHashCalls, rets,
           nMut>>

\* The constructor has not returned.
NotYet == -1

VARIABLES
    ckind,         \* which cursor class was constructed: "Reader" or "Writer"
    buffer,        \* Reader.buffer / Writer.buffer
    size,          \* Reader.size / Writer.size
    offset,        \* Reader.offset / Writer.offset
    cpc,           \* position: "new" before the constructor, then "ready"
    ctorArg,       \* the offset argument the constructor was given
    nOps,          \* number of read / write calls made
    lastOp,        \* the last call: its name, width, offset before and after
    result,        \* what the last read returned
    raised,        \* whether the last call threw a RangeError
    lastWrite,     \* the last write that completed, with its arguments
    prevBuffer,    \* the bytes of the buffer before the last call
    run,           \* the offset when it was last set, the widths of the
                   \* calls since, and whether all of them fitted the buffer
    assigned,      \* whether the caller has assigned cursor.offset directly
    nMoves,        \* number of direct assignments and further constructions
    lastStore,     \* the last byte the caller stored, in the buffer or
                   \* through the array readBuffer returned
    nStores        \* number of such stores

cvars == <<ckind, buffer, size, offset, cpc, ctorArg, nOps, lastOp, result,
           raised, lastWrite, prevBuffer, run, assigned, nMoves, lastStore,
           nStores>>

VARIABLES
    fields,        \* Template.fields: each field's type and data, the data a
                   \* window (byteOffset, len) of its backing storage
    byteLength,    \* Template.byteLength
    tpc,           \* position: "new", "constructed", "writing" (in the loop
                   \* of toBuffer), "returned", "threw"
    fieldI,        \* the loop variable i of toBuffer
    starts,        \* the writer's offset when each field's turn began
    storeCount     \* how many times each byte of the output was stored to

tvars == <<fields, byteLength, tpc, fieldI, starts, storeCount>>

VARIABLES
    ekind,         \* which class was extended: "Block" or "Transaction"
    entityBuffer,  \* Block.buffer / Transaction.buffer
    epc,           \* position: "ready" once constructed
    toBufferCalls, \* number of invocations of the subclass's toBuffer()
    lastGet,       \* the last getBuffer() call: what was stored before,
                   \* whether toBuffer() ran and what it returned, what was
                   \* stored after and what the call returned
    nGets,         \* number of getBuffer() calls made
    nSets          \* number of times the subclass has set the buffer

evars == <<ekind, entityBuffer, epc, toBufferCalls, lastGet, nGets, nSets>>

vars == <<mvars, cvars, tvars, evars>>

\* new MerkleTree(hashes, hashFunction, hashSize): the state on entry to the
\* constructor body, which then runs this.merkleRoot = this.getRoot().
MerkleInit ==
    /\ hashes \in LeafLists(MaxLeaves)
    /\ hashFunction \in HashFunctions
    /\ hashSize \in HashSizes
    /\ merkleRoot = Undefined
    /\ mpc = "ctor"
    /\ workHashes = <<>>
    /\ loopI = 0
    /\ passStart = <<>>
    /\ passes = 0
    /\ hashCalls = 0
    /\ ctorHashes = hashes
    /\ ctorHashCalls = NotYet
    /\ rets = <<>>
    /\ nMut = 0
    \* no cursor is constructed
    /\ ckind = "none"
    /\ buffer = <<>>
    /\ size = 0
    /\ offset = 0
    /\ cpc = "idle"
    /\ ctorArg = [given |-> FALSE, value |-> 0]
    /\ nOps = 0
    /\ lastOp = NoOp
    /\ result = NoResult
    /\ raised = FALSE
    /\ lastWrite = NoWrite
    /\ prevBuffer = buffer
    /\ run = NoRun
    /\ assigned = FALSE
    /\ nMoves = 0
    /\ lastStore = NoStore
    /\ nStores = 0
    \* no Template is constructed
    /\ fields = <<>>
    /\ byteLength = 0
    /\ tpc = "idle"
    /\ fieldI = 0
    /\ starts = <<>>
    /\ storeCount = <<>>
    \* no Block or Transaction is constructed
    /\ ekind = "none"
    /\ entityBuffer = Undefined
    /\ epc = "idle"
    /\ toBufferCalls = 0
    /\ lastGet = NoGet
    /\ nGets = 0
    /\ nSets = 0

\* The value getRoot() hands back, delivered to its caller: the constructor
\* stores it in merkleRoot, a later caller receives it.
Deliver(value) ==
    IF ctorHashCalls = NotYet
    THEN /\ merkleRoot' = value
         /\ ctorHashCalls' = hashCalls
         /\ rets' = rets
    ELSE /\ merkleRoot' = merkleRoot
         /\ ctorHashCalls' = ctorHashCalls
         /\ rets' = Append(rets, [value |-> value, leaves |-> Len(hashes),
                                  muts |-> nMut])

CanCall == mpc = "ctor" \/ (mpc = "ready" /\ Len(rets) < MaxCalls)

\* The cache check placed before the emptiness check.
GetRootValue_CacheFirst(h, root, hsize) ==
    IF root # Undefined THEN root ELSE Zeros(hsize)

\* getRoot() when it does not compute: a zeroed hash of hashSize bytes when
\* there are no hashes, else the root already computed.
GetRootValue(h, root, hsize) ==
    IF Len(h) = 0 THEN Zeros(hsize) ELSE root

\* No root counts as computed.
Cached_Never(root) == FALSE

\* if (this.merkleRoot !== undefined): the root is already computed.
Cached(root) == root # Undefined

\* getRoot(), the two early returns.
GetRoot ==
    /\ CanCall
    /\ Len(hashes) = 0 \/ Cached(merkleRoot)
    /\ Deliver(GetRootValue(hashes, merkleRoot, hashSize))
    /\ mpc' = "ready"
    /\ UNCHANGED <<hashes, hashFunction, hashSize, workHashes, loopI,
                   passStart, passes, hashCalls, ctorHashes, nMut>>
    /\ UNCHANGED <<cvars, tvars, evars>>

\* No hash is cloned.
PadOdd_Never(h) == h

\* If the number of hashes is odd, the last one is cloned and appended.
PadOdd(h) == IF Len(h) % 2 # 0 THEN Append(h, h[Len(h)]) ELSE h

\* getRoot(), last branch, and the head of computeMerkleRoot(): pad the
\* list, then copy it.
ComputeBegin ==
    /\ CanCall
    /\ Len(hashes) # 0
    /\ ~Cached(merkleRoot)
    /\ hashes' = PadOdd(hashes)
    /\ workHashes' = hashes'
    /\ mpc' = "while"
    /\ UNCHANGED <<hashFunction, hashSize, merkleRoot, loopI, passStart,
                   passes, hashCalls, ctorHashes, ctorHashCalls, rets, nMut>>
    /\ UNCHANGED <<cvars, tvars, evars>>

\* while (hashes.length > 1), condition true: for (let i = hashes.length; ...
WhileEnter ==
    /\ mpc = "while"
    /\ Len(workHashes) > 1
    /\ loopI' = Len(workHashes)
    /\ passStart' = workHashes
    /\ passes' = passes + 1
    /\ mpc' = "for"
    /\ UNCHANGED <<hashes, hashFunction, hashSize, merkleRoot, workHashes,
                   hashCalls, ctorHashes, ctorHashCalls, rets, nMut>>
    /\ UNCHANGED <<cvars, tvars, evars>>

\* The two hashes concatenated in the wrong order.
ForBody_SwapConcat(fn, w, i) ==
    LET nodeHash == Concat(w[i], w[i - 1])
        stored == [w EXCEPT ![i - 1] = ApplyHash(fn, nodeHash)]
    IN  SubSeq(stored, 1, Len(stored) - 1)

\* The consumed right sibling removed instead of the last entry.
ForBody_RemoveSibling(fn, w, i) ==
    LET nodeHash == Concat(w[i - 1], w[i])
        stored == [w EXCEPT ![i - 1] = ApplyHash(fn, nodeHash)]
    IN  SubSeq(stored, 1, i - 1) \o SubSeq(stored, i + 1, Len(stored))

\* The loop shortens the list by two entries while more than two are left.
ForBody_PopTwoWhenLong(fn, w, i) ==
    LET nodeHash == Concat(w[i - 1], w[i])
        stored == [w EXCEPT ![i - 1] = ApplyHash(fn, nodeHash)]
    IN  IF Len(w) > 2 THEN SubSeq(stored, 1, Len(stored) - 2)
        ELSE SubSeq(stored, 1, Len(stored) - 1)

\* One iteration of the for loop on list w at index i (the 0-based i of the
\* source): hashes[i - 2] = hashFunction(hashes[i - 2] ++ hashes[i - 1]),
\* then hashes.pop().
ForBody(fn, w, i) ==
    LET nodeHash == Concat(w[i - 1], w[i])
        stored == [w EXCEPT ![i - 1] = ApplyHash(fn, nodeHash)]
    IN  SubSeq(stored, 1, Len(stored) - 1)

\* The loop works on this.hashes itself.
StoredHashes_Shared(stored, work) == work

\* const hashes = this.hashes.slice(): the loop works on a copy, so
\* this.hashes stays as it is whatever the working list has become.
StoredHashes(stored, work) == stored

\* for (...; i > 1; i -= 2), condition true: one iteration.
ForStep ==
    /\ mpc = "for"
    /\ loopI > 1
    /\ workHashes' = ForBody(hashFunction, workHashes, loopI)
    /\ hashes' = StoredHashes(hashes, workHashes')
    /\ hashCalls' = hashCalls + 1
    /\ loopI' = loopI - 2
    /\ UNCHANGED <<hashFunction, hashSize, merkleRoot, mpc, passStart,
                   passes, ctorHashes, ctorHashCalls, rets, nMut>>
    /\ UNCHANGED <<cvars, tvars, evars>>

\* for loop, condition false: back to the while test.
ForExit ==
    /\ mpc = "for"
    /\ loopI <= 1
    /\ mpc' = "while"
    /\ UNCHANGED <<hashes, hashFunction, hashSize, merkleRoot, workHashes,
                   loopI, passStart, passes, hashCalls, ctorHashes,
                   ctorHashCalls, rets, nMut>>
    /\ UNCHANGED <<cvars, tvars, evars>>

\* while condition false: return hashes[0]; the constructor stores it,
\* a later getRoot() returns it to its caller.
ComputeReturn ==
    /\ mpc = "while"
    /\ Len(workHashes) <= 1
    /\ Deliver(workHashes[1])
    /\ mpc' = "ready"
    /\ UNCHANGED <<hashes, hashFunction, hashSize, workHashes, loopI,
                   passStart, passes, hashCalls, ctorHashes, nMut>>
    /\ UNCHANGED <<cvars, tvars, evars>>

(*************************************************************************)
(* The caller's mutations of the public leaf list after construction.    *)
(*************************************************************************)
CanMutate == mpc = "ready" /\ nMut < MaxMutations

MutateFrame ==
    /\ nMut' = nMut + 1
    /\ UNCHANGED <<hashFunction, hashSize, merkleRoot, mpc, workHashes, loopI,
                   passStart, passes, hashCalls, ctorHashes, ctorHashCalls, rets>>
    /\ UNCHANGED <<cvars, tvars, evars>>

\* tree.hashes.push(leaf)
MutatePush ==
    /\ CanMutate
    /\ \E leaf \in Leaves : hashes' = Append(hashes, leaf)
    /\ MutateFrame

\* tree.hashes[k] = leaf
MutateReplace ==
    /\ CanMutate
    /\ \E k \in 1..Len(hashes), leaf \in Leaves :
          /\ hashes[k] # leaf
          /\ hashes' = [hashes EXCEPT ![k] = leaf]
    /\ MutateFrame

\* tree.hashes.pop()
MutatePop ==
    /\ CanMutate
    /\ Len(hashes) > 0
    /\ hashes' = SubSeq(hashes, 1, Len(hashes) - 1)
    /\ MutateFrame

\* tree.hashes.length = 0
MutateClear ==
    /\ CanMutate
    /\ Len(hashes) > 0
    /\ hashes' = <<>>
    /\ MutateFrame

MerkleNext ==
    \/ GetRoot
    \/ ComputeBegin
    \/ WhileEnter
    \/ ForStep
    \/ ForExit
    \/ ComputeReturn
    \/ MutatePush
    \/ MutateReplace
    \/ MutatePop
    \/ MutateClear

(*************************************************************************)
(* Reader and Writer.                                                    *)
(*                                                                       *)
(* Numbers wider than one byte are kept as sequences of 16-bit limbs,    *)
(* least significant first (one limb for uint16, two for uint32, four    *)
(* for uint64), because a uint32 or uint64 exceeds the model checker's   *)
(* integers. A uint8 read is a sequence of one byte.                     *)
(*************************************************************************)
\* The test buffers "00", "0001", "00010203", ...: byte k holds k.
Ramp(n) == [j \in 1..n |-> j - 1]

\* The constructor's offset argument for a buffer of n bytes: omitted, or a
\* number around the start or around the end of the buffer.
CtorArgs(n) ==
    {[given |-> FALSE, value |-> 0]}
        \cup {[given |-> TRUE, value |-> o] :
                 o \in {-1, 0, 1, n - 1, n, n + 1}}

\* offset: number = 0
ArgOffset(arg) == IF arg.given THEN arg.value ELSE 0

\* The bytes written by writeUint8.
ByteValues == {7, 255}

\* The numbers written by writeUint16/32/64 (w bytes wide): the bytes
\* 01 02 03 ... and the largest number of that width.
WideValues(w) ==
    {[k \in 1..(w \div 2) |-> 256 * (2 * k) + (2 * k - 1)],
     [k \in 1..(w \div 2) |-> 65535]}

\* The byte sequences handed to writeBuffer.
SourceBuffers == {<<>>, <<170>>, <<170, 187, 204>>}

\* The sizes asked of readBuffer.
ReadSizes == 0..3

\* The lengths of the buffers handed to the constructors: empty, shorter
\* than each integer width, and long enough for a uint64.
BufLens == {0, 1, 2, 4, MaxBufLen}

\* The arguments of new Reader(buffer, offset) / new Writer(buffer, offset).
CursorInit ==
    /\ ckind = "none"
    /\ buffer \in {Ramp(n) : n \in BufLens}
    /\ size = 0
    /\ offset = 0
    /\ cpc = "new"
    /\ ctorArg \in CtorArgs(Len(buffer))
    /\ nOps = 0
    /\ lastOp = NoOp
    /\ result = NoResult
    /\ raised = FALSE
    /\ lastWrite = NoWrite
    /\ prevBuffer = buffer
    /\ run = NoRun
    /\ assigned = FALSE
    /\ nMoves = 0
    /\ lastStore = NoStore
    /\ nStores = 0
    \* no MerkleTree is constructed
    /\ hashes = <<>>
    /\ hashFunction = "fake"
    /\ hashSize = DEFAULT_HASH_SIZE
    /\ merkleRoot = Undefined
    /\ mpc = "idle"
    /\ workHashes = <<>>
    /\ loopI = 0
    /\ passStart = <<>>
    /\ passes = 0
    /\ hashCalls = 0
    /\ ctorHashes = <<>>
    /\ ctorHashCalls = NotYet
    /\ rets = <<>>
    /\ nMut = 0
    \* no Template is constructed
    /\ fields = <<>>
    /\ byteLength = 0
    /\ tpc = "idle"
    /\ fieldI = 0
    /\ starts = <<>>
    /\ storeCount = <<>>
    \* no Block or Transaction is constructed
    /\ ekind = "none"
    /\ entityBuffer = Undefined
    /\ epc = "idle"
    /\ toBufferCalls = 0
    /\ lastGet = NoGet
    /\ nGets = 0
    /\ nSets = 0

\* The position check without its first half.
ReaderCtorOffset_ClampHigh(buf, arg) ==
    IF ArgOffset(arg) >= Len(buf) THEN 0 ELSE ArgOffset(arg)

\* The position check left out.
ReaderCtorOffset_NoClamp(buf, arg) == ArgOffset(arg)

\* Reader.constructor: "do not allow position overflow".
ReaderCtorOffset(buf, arg) ==
    IF ArgOffset(arg) < 0 \/ ArgOffset(arg) >= Len(buf) THEN 0 ELSE ArgOffset(arg)

\* Writer.constructor keeps the offset it is given.
WriterCtorOffset(buf, arg) == ArgOffset(arg)

NewReader ==
    /\ cpc = "new"
    /\ ckind' = "Reader"
    /\ size' = Len(buffer)
    /\ offset' = ReaderCtorOffset(buffer, ctorArg)
    /\ run' = [start |-> offset', sum |-> 0, fit |-> TRUE]
    /\ cpc' = "ready"
    /\ UNCHANGED <<buffer, ctorArg, nOps, lastOp, result, raised, lastWrite,
                   prevBuffer, assigned, nMoves, lastStore, nStores>>
    /\ UNCHANGED <<mvars, tvars, evars>>

NewWriter ==
    /\ cpc = "new"
    /\ ckind' = "Writer"
    /\ size' = Len(buffer)
    /\ offset' = WriterCtorOffset(buffer, ctorArg)
    /\ run' = [start |-> offset', sum |-> 0, fit |-> TRUE]
    /\ cpc' = "ready"
    /\ UNCHANGED <<buffer, ctorArg, nOps, lastOp, result, raised, lastWrite,
                   prevBuffer, assigned, nMoves, lastStore, nStores>>
    /\ UNCHANGED <<mvars, tvars, evars>>

\* The caller moves the cursor before a call.
CanMove == cpc = "ready" /\ nMoves < MaxMoves /\ nOps < MaxOps

\* The offsets a caller moves a cursor to: before the start, the start, the
\* second byte, the place of the last write, and past the end.
MoveOffsets == {-1, 0, 1, lastWrite.before, Len(buffer) + 1}

\* The offset argument of a Reader made over a buffer already written to:
\* omitted, the place of the last write, or past the end.
MoveArgs ==
    {[given |-> FALSE, value |-> 0]}
        \cup {[given |-> TRUE, value |-> o] :
                 o \in {lastWrite.before, Len(buffer) + 1}}

\* new Reader(buffer, o) over the buffer a Writer has been writing to.
ReaderOver ==
    /\ CanMove
    /\ ckind = "Writer"
    /\ nOps > 0
    /\ \E arg \in MoveArgs :
          /\ ctorArg' = arg
          /\ offset' = ReaderCtorOffset(buffer, arg)
    /\ ckind' = "Reader"
    /\ size' = Len(buffer)
    /\ run' = [start |-> offset', sum |-> 0, fit |-> TRUE]
    /\ assigned' = FALSE
    /\ nMoves' = nMoves + 1
    /\ UNCHANGED <<buffer, cpc, nOps, lastOp, result, raised, lastWrite,
                   prevBuffer, lastStore, nStores>>
    /\ UNCHANGED <<mvars, tvars, evars>>

\* cursor.offset = o: the field is public, the caller may assign it.
SetOffset ==
    /\ CanMove
    /\ \E o \in MoveOffsets \ {offset} : offset' = o
    /\ run' = [start |-> offset', sum |-> 0, fit |-> TRUE]
    /\ assigned' = TRUE
    /\ nMoves' = nMoves + 1
    /\ UNCHANGED <<ckind, buffer, size, cpc, ctorArg, nOps, lastOp, result,
                   raised, lastWrite, prevBuffer, lastStore, nStores>>
    /\ UNCHANGED <<mvars, tvars, evars>>

\* A DataView access of w bytes at position o is in range.
Fits(o, w) == o >= 0 /\ o + w <= size

EncodeLE_BigEndian(v, w) ==
    [j \in 1..w |->
        IF j % 2 = 1 THEN v[(w - j + 2) \div 2] \div 256
        ELSE v[(w - j + 2) \div 2] % 256]

\* The w bytes, least significant first, of the number v.
EncodeLE(v, w) ==
    [j \in 1..w |->
        IF j % 2 = 1 THEN v[(j + 1) \div 2] % 256 ELSE v[(j + 1) \div 2] \div 256]

DecodeLE_BigEndian(b) ==
    [k \in 1..(Len(b) \div 2) |->
        b[Len(b) - 2 * k + 2] + 256 * b[Len(b) - 2 * k + 1]]

\* The number whose bytes, least significant first, are b.
DecodeLE(b) ==
    [k \in 1..(Len(b) \div 2) |-> b[2 * k - 1] + 256 * b[2 * k]]

\* buf with the bytes b stored from position o (0-based) on.
StoreAt(buf, o, b) ==
    [j \in 1..Len(buf) |-> IF j > o /\ j <= o + Len(b) THEN b[j - o] ELSE buf[j]]

CanRead == cpc = "ready" /\ ckind = "Reader" /\ nOps < MaxOps

CanWrite == cpc = "ready" /\ ckind = "Writer" /\ nOps < MaxOps

\* An access of w bytes at position o lies inside the buffer buf.
Inside(buf, o, w) == o >= 0 /\ o + w <= Len(buf)

OpFrame(name, w) ==
    /\ nOps' = nOps + 1
    /\ lastOp' = [name |-> name, width |-> w, before |-> offset,
                  after |-> offset']
    /\ prevBuffer' = buffer
    /\ run' = [start |-> run.start, sum |-> run.sum + w,
               fit |-> run.fit /\ Inside(buffer, offset, w)]
    /\ UNCHANGED <<ckind, size, cpc, ctorArg, assigned, nMoves, lastStore,
                   nStores>>
    /\ UNCHANGED <<mvars, tvars, evars>>

\* The record of a write that completed.
Written(name, w, v, index, given) ==
    [name |-> name, width |-> w, before |-> offset, val |-> v,
     index |-> index, indexGiven |-> given]

ReadUint8_NoAdvance ==
    /\ CanRead
    /\ result' = IF offset >= 0 /\ offset < Len(buffer)
                 THEN NumResult(<<buffer[offset + 1]>>)
                 ELSE UndefinedResult
    /\ offset' = offset
    /\ raised' = FALSE
    /\ UNCHANGED <<buffer, lastWrite>>
    /\ OpFrame("readUint8", 1)

\* readUint8(): return this.buffer[this.offset++]
ReadUint8 ==
    /\ CanRead
    /\ result' = IF offset >= 0 /\ offset < Len(buffer)
                 THEN NumResult(<<buffer[offset + 1]>>)
                 ELSE UndefinedResult
    /\ offset' = offset + 1
    /\ raised' = FALSE
    /\ UNCHANGED <<buffer, lastWrite>>
    /\ OpFrame("readUint8", 1)

\* The range checked first: a read that fails leaves the offset alone.
ReadWide_CheckFirst(name, w) ==
    /\ CanRead
    /\ IF Fits(offset, w)
       THEN /\ offset' = offset + w
            /\ result' = NumResult(DecodeLE(SubSeq(buffer, offset + 1, offset + w)))
            /\ raised' = FALSE
       ELSE /\ offset' = offset
            /\ result' = NoResult
            /\ raised' = TRUE
    /\ UNCHANGED <<buffer, lastWrite>>
    /\ OpFrame(name, w)

\* readUint16/32/64(): this.offset += w; return this.data.getUintN(
\* this.offset - w, true). The DataView throws a RangeError out of range.
ReadWide(name, w) ==
    /\ CanRead
    /\ offset' = offset + w
    /\ IF Fits(offset, w)
       THEN /\ result' = NumResult(DecodeLE(SubSeq(buffer, offset + 1, offset + w)))
            /\ raised' = FALSE
       ELSE /\ result' = NoResult
            /\ raised' = TRUE
    /\ UNCHANGED <<buffer, lastWrite>>
    /\ OpFrame(name, w)

ReadUint16 == ReadWide("readUint16", 2)

ReadUint32 == ReadWide("readUint32", 4)

ReadUint64 == ReadWide("readUint64", 8)

\* An index past the end taken as it is.
SubarrayIndex_Unclamped(k, len) ==
    IF k < 0 THEN (IF len + k > 0 THEN len + k ELSE 0) ELSE k

\* TypedArray.prototype.subarray's resolution of an index against len.
SubarrayIndex(k, len) ==
    IF k < 0 THEN (IF len + k > 0 THEN len + k ELSE 0)
    ELSE (IF k < len THEN k ELSE len)

Subarray_Copy(buf, begin, end) ==
    [tag |-> "copy",
     val |-> SubSeq(buf, SubarrayIndex(begin, Len(buf)) + 1,
                    SubarrayIndex(end, Len(buf))),
     from |-> SubarrayIndex(begin, Len(buf)),
     to |-> SubarrayIndex(end, Len(buf))]

\* buf.subarray(begin, end): a new Uint8Array on the same storage.
Subarray(buf, begin, end) ==
    ViewResult(SubarrayIndex(begin, Len(buf)), SubarrayIndex(end, Len(buf)))

\* readBuffer(size): this.offset += size; return this.buffer.subarray(
\* this.offset - size, this.offset)
ReadBuffer ==
    /\ CanRead
    /\ \E n \in ReadSizes :
          /\ offset' = offset + n
          /\ result' = Subarray(buffer, offset, offset + n)
          /\ OpFrame("readBuffer", n)
    /\ raised' = FALSE
    /\ UNCHANGED <<buffer, lastWrite>>

\* this.buffer[o] = v: stored modulo 256 in range, dropped out of range.
StoreByte(buf, o, v) ==
    IF o >= 0 /\ o < Len(buf) THEN [buf EXCEPT ![o + 1] = v % 256] ELSE buf

\* writeUint8(v): this.buffer[this.offset++] = v
WriteUint8 ==
    /\ CanWrite
    /\ \E v \in ByteValues :
          /\ buffer' = StoreByte(buffer, offset, v)
          /\ lastWrite' = Written("writeUint8", 1, <<v>>, 0, FALSE)
    /\ offset' = offset + 1
    /\ raised' = FALSE
    /\ UNCHANGED result
    /\ OpFrame("writeUint8", 1)

\* The bytes that fit are stored and the offset moves before the error.
WriteWide_Partial(name, w) ==
    /\ CanWrite
    /\ \E v \in WideValues(w) :
          /\ buffer' = StoreAt(buffer, offset, EncodeLE(v, w))
          /\ offset' = offset + w
          /\ IF Fits(offset, w)
             THEN /\ raised' = FALSE
                  /\ lastWrite' = Written(name, w, v, 0, FALSE)
             ELSE /\ raised' = TRUE
                  /\ UNCHANGED lastWrite
    /\ UNCHANGED result
    /\ OpFrame(name, w)

\* writeUint16/32/64(v): this.data.setUintN(this.offset, v, true);
\* this.offset += w. The DataView throws a RangeError out of range, before
\* anything is stored and before the offset moves.
WriteWide(name, w) ==
    /\ CanWrite
    /\ \E v \in WideValues(w) :
          IF Fits(offset, w)
          THEN /\ buffer' = StoreAt(buffer, offset, EncodeLE(v, w))
               /\ offset' = offset + w
               /\ raised' = FALSE
               /\ lastWrite' = Written(name, w, v, 0, FALSE)
          ELSE /\ UNCHANGED <<buffer, offset, lastWrite>>
               /\ raised' = TRUE
    /\ UNCHANGED result
    /\ OpFrame(name, w)

WriteUint16 == WriteWide("writeUint16", 2)

WriteUint32 == WriteWide("writeUint32", 4)

WriteUint64 == WriteWide("writeUint64", 8)

WriteLoop_FromStart(dst, o, src, i) ==
    [j \in 1..Len(dst) |->
        IF j > o /\ j <= o + Len(src) - i THEN src[j - o] ELSE dst[j]]

WriteLoop_Reversed(dst, o, src, i) ==
    [j \in 1..Len(dst) |->
        IF j > o /\ j <= o + Len(src) - i THEN src[Len(src) - (j - o) + 1]
        ELSE dst[j]]

\* The loop of writeBuffer: for (let i = index; i < buf.byteLength; i++)
\* this.writeUint8(buf[i]), on destination dst at offset o.
RECURSIVE WriteLoop(_, _, _, _)
WriteLoop(dst, o, src, i) ==
    IF i < Len(src)
    THEN WriteLoop(StoreByte(dst, o, src[i + 1]), o + 1, src, i + 1)
    ELSE dst

\* The index argument of writeBuffer: omitted, or a position in buf.
IndexArgs(src) ==
    {[given |-> FALSE, value |-> 0]}
        \cup {[given |-> TRUE, value |-> k] : k \in 0..Len(src)}

\* writeBuffer(buf, index = 0)
WriteBuffer ==
    /\ CanWrite
    /\ \E src \in SourceBuffers : \E arg \in IndexArgs(src) :
          LET index == ArgOffset(arg) IN
          /\ buffer' = WriteLoop(buffer, offset, src, index)
          /\ offset' = offset + (Len(src) - index)
          /\ lastWrite' = Written("writeBuffer", Len(src) - index, src, index,
                                  arg.given)
          /\ OpFrame("writeBuffer", Len(src) - index)
    /\ raised' = FALSE
    /\ UNCHANGED result

\* The byte the caller stores.
StoredByte == 85

\* The caller holds what readBuffer returned and no call has followed.
HoldsView ==
    /\ cpc = "ready"
    /\ lastOp.name = "readBuffer"
    /\ nStores < MaxStores

StoreFrame ==
    /\ nStores' = nStores + 1
    /\ UNCHANGED <<ckind, size, offset, cpc, ctorArg, nOps, lastOp, result,
                   raised, lastWrite, prevBuffer, run, assigned, nMoves>>
    /\ UNCHANGED <<mvars, tvars, evars>>

\* buffer[p] = v by the caller, on the buffer the Reader was given, at the
\* first or the last position readBuffer returned.
CallerStore ==
    /\ HoldsView
    /\ result.from < result.to
    /\ \E p \in {result.from, result.to - 1} :
          /\ buffer' = StoreByte(buffer, p, StoredByte)
          /\ lastStore' = [kind |-> "buffer", at |-> p, val |-> StoredByte,
                           ops |-> nOps]
    /\ StoreFrame

\* r[k] = v on the storage r shows: r's window of the buffer when r is a
\* view of it; dropped when k is outside r.
StoreThrough(r, k, v) ==
    IF r.tag = "view" /\ k >= 0 /\ k < r.to - r.from
    THEN StoreByte(buffer, r.from + k, v)
    ELSE buffer

\* r[k] = v by the caller, r being what readBuffer returned, at r's first
\* or last index.
ViewStore ==
    /\ HoldsView
    /\ result.from < result.to
    /\ \E k \in {0, result.to - result.from - 1} :
          /\ buffer' = StoreThrough(result, k, StoredByte)
          /\ lastStore' = [kind |-> "view", at |-> k, val |-> StoredByte,
                           ops |-> nOps]
    /\ StoreFrame

CursorNext ==
    \/ NewReader
    \/ NewWriter
    \/ ReaderOver
    \/ SetOffset
    \/ ReadUint8
    \/ ReadUint16
    \/ ReadUint32
    \/ ReadUint64
    \/ ReadBuffer
    \/ WriteUint8
    \/ WriteUint16
    \/ WriteUint32
    \/ WriteUint64
    \/ WriteBuffer

\* A Reader whose caller keeps what readBuffer returned and stores bytes in
\* the buffer and through the returned array.
ViewNext ==
    \/ NewReader
    \/ ReadUint8
    \/ ReadBuffer
    \/ CallerStore
    \/ ViewStore

(*************************************************************************)
(* Template: fields concatenated into one buffer through a Writer.       *)
(*************************************************************************)
FieldTypes == {"buffer", "uint8", "uint16", "uint32", "uint64"}

\* A Uint8Array: len bytes from position byteOffset of its backing storage.
View(storage, byteOffset, len) ==
    [storage |-> storage, byteOffset |-> byteOffset, len |-> len]

\* new Uint8Array([...]): a view of the whole of its own storage.
Whole(bytes) == View(bytes, 0, Len(bytes))

\* The data given to fields: the arrays of the tests, an empty array, and
\* a window that begins two bytes into a larger storage.
FieldData ==
    {Whole(<<>>), Whole(<<1>>), Whole(<<3, 2>>), Whole(<<1, 255>>),
     Whole(<<7, 6, 5, 4>>), Whole(<<255, 255, 255, 255>>),
     Whole(<<8, 9, 10, 11, 12, 13, 14, 15>>), View(<<9, 9, 3, 2>>, 2, 2)}

Fields == {[type |-> t, data |-> d] : t \in FieldTypes, d \in FieldData}

FieldLists(n) == UNION {[1..k -> Fields] : k \in 0..n}

\* What Buffer.allocUnsafe leaves in each byte of the new buffer.
GarbageBytes == {0, 238}

\* The bytes of a Uint8Array, as indexing it shows them.
DataBytes(d) == SubSeq(d.storage, d.byteOffset + 1, d.byteOffset + d.len)

\* The sum of the widths the types declare.
RECURSIVE SumByteLength_Widths(_)
SumByteLength_Widths(fs) ==
    IF fs = <<>> THEN 0
    ELSE SumByteLength_Widths(SubSeq(fs, 1, Len(fs) - 1))
            + (CASE fs[Len(fs)].type = "uint8" -> 1
                 [] fs[Len(fs)].type = "uint16" -> 2
                 [] fs[Len(fs)].type = "uint32" -> 4
                 [] fs[Len(fs)].type = "uint64" -> 8
                 [] OTHER -> fs[Len(fs)].data.len)

\* .map((f) => f.data.byteLength).reduce((prev, cur) => prev + cur, 0)
RECURSIVE SumByteLength(_)
SumByteLength(fs) ==
    IF fs = <<>> THEN 0
    ELSE SumByteLength(SubSeq(fs, 1, Len(fs) - 1)) + fs[Len(fs)].data.len

\* The bytes written for the types uint16, uint32, uint64.
WideWidth(type) ==
    CASE type = "uint16" -> 2
      [] type = "uint32" -> 4
      [] type = "uint64" -> 8

\* new Template(fields): the state on entry to the constructor body.
TemplateInit ==
    /\ fields \in FieldLists(MaxFields)
    /\ byteLength = 0
    /\ tpc = "new"
    /\ fieldI = 0
    /\ starts = <<>>
    /\ storeCount = <<>>
    \* the Writer is made in toBuffer
    /\ ckind = "none"
    /\ buffer = <<>>
    /\ size = 0
    /\ offset = 0
    /\ cpc = "idle"
    /\ ctorArg = [given |-> FALSE, value |-> 0]
    /\ nOps = 0
    /\ lastOp = NoOp
    /\ result = NoResult
    /\ raised = FALSE
    /\ lastWrite = NoWrite
    /\ prevBuffer = <<>>
    /\ run = NoRun
    /\ assigned = FALSE
    /\ nMoves = 0
    /\ lastStore = NoStore
    /\ nStores = 0
    \* no MerkleTree is constructed
    /\ hashes = <<>>
    /\ hashFunction = "fake"
    /\ hashSize = DEFAULT_HASH_SIZE
    /\ merkleRoot = Undefined
    /\ mpc = "idle"
    /\ workHashes = <<>>
    /\ loopI = 0
    /\ passStart = <<>>
    /\ passes = 0
    /\ hashCalls = 0
    /\ ctorHashes = <<>>
    /\ ctorHashCalls = NotYet
    /\ rets = <<>>
    /\ nMut = 0
    \* no Block or Transaction is constructed
    /\ ekind = "none"
    /\ entityBuffer = Undefined
    /\ epc = "idle"
    /\ toBufferCalls = 0
    /\ lastGet = NoGet
    /\ nGets = 0
    /\ nSets = 0

TemplateFrame ==
    UNCHANGED <<cpc, ctorArg, nOps, lastOp, result, lastWrite, prevBuffer,
                run, assigned, nMoves, lastStore, nStores, mvars, evars>>

\* constructor: this.byteLength = the sum of the fields' data.byteLength
NewTemplate ==
    /\ tpc = "new"
    /\ byteLength' = SumByteLength(fields)
    /\ tpc' = "constructed"
    /\ UNCHANGED <<fields, fieldI, starts, storeCount>>
    /\ UNCHANGED <<ckind, buffer, size, offset, raised>>
    /\ TemplateFrame

\* toBuffer(): const buffer = Buffer.allocUnsafe(this.byteLength);
\* const writer = new Writer(buffer). The bytes of the buffer are whatever
\* the allocation left there.
ToBufferBegin ==
    /\ tpc = "constructed"
    /\ \E g \in GarbageBytes : buffer' = [j \in 1..byteLength |-> g]
    /\ ckind' = "Writer"
    /\ size' = byteLength
    /\ offset' = WriterCtorOffset(buffer', [given |-> FALSE, value |-> 0])
    /\ raised' = FALSE
    /\ fieldI' = 0
    /\ starts' = <<>>
    /\ storeCount' = [j \in 1..byteLength |-> 0]
    /\ tpc' = "writing"
    /\ UNCHANGED <<fields, byteLength>>
    /\ TemplateFrame

\* The field the loop of toBuffer is at.
InLoop(types) ==
    /\ tpc = "writing"
    /\ fieldI < Len(fields)
    /\ fields[fieldI + 1].type \in types

\* The loop moves to the next field.
NextField ==
    /\ fieldI' = fieldI + 1
    /\ starts' = Append(starts, offset)
    /\ tpc' = "writing"
    /\ UNCHANGED <<fields, byteLength, ckind, size>>
    /\ TemplateFrame

\* The RangeError swallowed: the loop goes on to the next field.
Throw_Skip ==
    /\ raised' = FALSE
    /\ UNCHANGED <<buffer, offset, storeCount>>
    /\ NextField

\* A RangeError leaves toBuffer: no buffer is returned.
Throw ==
    /\ raised' = TRUE
    /\ tpc' = "threw"
    /\ UNCHANGED <<fields, byteLength, fieldI, starts, storeCount>>
    /\ UNCHANGED <<ckind, buffer, size, offset>>
    /\ TemplateFrame

\* The count cnt after n stores at the positions from o on: a store past
\* the end of the output reaches no byte.
Stored(cnt, o, n) ==
    [j \in 1..Len(cnt) |-> IF j > o /\ j <= o + n THEN cnt[j] + 1 ELSE cnt[j]]

\* case "buffer": writer.writeBuffer(this.fields[i].data)
WriteBufferField ==
    /\ InLoop({"buffer"})
    /\ LET d == fields[fieldI + 1].data IN
          /\ buffer' = WriteLoop(buffer, offset, DataBytes(d), 0)
          /\ storeCount' = Stored(storeCount, offset, d.len)
          /\ offset' = offset + d.len
    /\ raised' = FALSE
    /\ NextField

\* view.getInt8(0) on new DataView(data.buffer): the first byte of the
\* storage as a signed number.
GetInt8(storage) ==
    IF storage[1] >= 128 THEN storage[1] - 256 ELSE storage[1]

\* The DataView made over the field's own bytes.
DataViewBytes_Window(d) == DataBytes(d)

\* const view = new DataView(this.fields[i].data.buffer): a view of the
\* whole backing storage from its position 0, whatever the byteOffset and
\* the length of the data.
DataViewBytes(d) == d.storage

\* case "uint8": writer.writeUint8(view.getInt8(0)). The DataView throws a
\* RangeError when the storage is empty.
WriteUint8Field ==
    /\ InLoop({"uint8"})
    /\ LET d == DataViewBytes(fields[fieldI + 1].data) IN
          IF Len(d) < 1
          THEN Throw
          ELSE /\ buffer' = StoreByte(buffer, offset, GetInt8(d))
               /\ storeCount' = Stored(storeCount, offset, 1)
               /\ offset' = offset + 1
               /\ raised' = FALSE
               /\ NextField

GetIntBE_LittleEndian(storage, w) ==
    [negative |-> storage[w] >= 128,
     limbs |-> [k \in 1..(w \div 2) |->
                   storage[2 * k - 1] + 256 * storage[2 * k]]]

\* view.getInt16(0) / getInt32(0) / getBigInt64(0) on new DataView(
\* data.buffer): with no littleEndian argument the first w bytes of the
\* storage are read big-endian, as a two's complement number. The number is
\* held as its sign and the 16-bit limbs of its bit pattern, least
\* significant first.
GetIntBE(storage, w) ==
    [negative |-> storage[1] >= 128,
     limbs |-> [k \in 1..(w \div 2) |->
                   storage[w - 2 * k + 2] + 256 * storage[w - 2 * k + 1]]]

\* The conversion of setUint16 / setUint32 / setBigUint64 of its argument:
\* the number modulo 2^(8w), which for a two's complement number of that
\* width is its bit pattern, whatever the sign.
ToUint(n) == n.limbs

\* case "uint16" / "uint32" / "uint64": writer.writeUintN(view.getIntN(0)).
\* The field's DataView throws a RangeError when the storage holds fewer
\* than w bytes, the Writer's when fewer than w bytes are left of the buffer.
WriteWideField ==
    /\ InLoop({"uint16", "uint32", "uint64"})
    /\ LET d == DataViewBytes(fields[fieldI + 1].data)
           w == WideWidth(fields[fieldI + 1].type)
       IN IF Len(d) < w \/ ~Fits(offset, w)
          THEN Throw
          ELSE /\ buffer' = StoreAt(buffer, offset,
                                    EncodeLE(ToUint(GetIntBE(d, w)), w))
               /\ storeCount' = Stored(storeCount, offset, w)
               /\ offset' = offset + w
               /\ raised' = FALSE
               /\ NextField

\* return buffer
ToBufferReturn ==
    /\ tpc = "writing"
    /\ fieldI = Len(fields)
    /\ tpc' = "returned"
    /\ UNCHANGED <<fields, byteLength, fieldI, starts, storeCount>>
    /\ UNCHANGED <<ckind, buffer, size, offset, raised>>
    /\ TemplateFrame

TemplateNext ==
    \/ NewTemplate
    \/ ToBufferBegin
    \/ WriteBufferField
    \/ WriteUint8Field
    \/ WriteWideField
    \/ ToBufferReturn

(*************************************************************************)
(* Block and Transaction: the buffer kept by getBuffer().                *)
(*************************************************************************)
EntityKinds == {"Block", "Transaction"}

\* The buffers given to the Transaction constructor or set by a subclass;
\* new Uint8Array([]) is the one of the tests.
StoredBuffers == {<<>>, <<1>>, <<2, 3>>}

\* What the subclass's toBuffer() returns.
HookResults == {<<>>, <<4>>, <<5, 6>>}

\* The buffer argument of new Transaction(buffer?); a Block takes none.
CtorBuffers(kind) ==
    IF kind = "Transaction" THEN {Undefined} \cup StoredBuffers ELSE {Undefined}

\* The state after the constructor, whose body is empty.
EntityInit ==
    /\ ekind \in EntityKinds
    /\ entityBuffer \in CtorBuffers(ekind)
    /\ epc = "ready"
    /\ toBufferCalls = 0
    /\ lastGet = NoGet
    /\ nGets = 0
    /\ nSets = 0
    \* no cursor is constructed
    /\ ckind = "none"
    /\ buffer = <<>>
    /\ size = 0
    /\ offset = 0
    /\ cpc = "idle"
    /\ ctorArg = [given |-> FALSE, value |-> 0]
    /\ nOps = 0
    /\ lastOp = NoOp
    /\ result = NoResult
    /\ raised = FALSE
    /\ lastWrite = NoWrite
    /\ prevBuffer = <<>>
    /\ run = NoRun
    /\ assigned = FALSE
    /\ nMoves = 0
    /\ lastStore = NoStore
    /\ nStores = 0
    \* no MerkleTree is constructed
    /\ hashes = <<>>
    /\ hashFunction = "fake"
    /\ hashSize = DEFAULT_HASH_SIZE
    /\ merkleRoot = Undefined
    /\ mpc = "idle"
    /\ workHashes = <<>>
    /\ loopI = 0
    /\ passStart = <<>>
    /\ passes = 0
    /\ hashCalls = 0
    /\ ctorHashes = <<>>
    /\ ctorHashCalls = NotYet
    /\ rets = <<>>
    /\ nMut = 0
    \* no Template is constructed
    /\ fields = <<>>
    /\ byteLength = 0
    /\ tpc = "idle"
    /\ fieldI = 0
    /\ starts = <<>>
    /\ storeCount = <<>>

Truthy_NonEmpty(b) == b # Undefined /\ Len(b) > 0

\* if (this.buffer): undefined is falsy, every Uint8Array is truthy, the
\* empty one too.
Truthy(b) == b # Undefined

\* getBuffer(): if (this.buffer) return this.buffer;
\* this.buffer = this.toBuffer(); return this.buffer
GetBuffer ==
    /\ epc = "ready"
    /\ nGets < MaxGets
    /\ nGets' = nGets + 1
    /\ IF Truthy(entityBuffer)
       THEN /\ lastGet' = [before |-> entityBuffer, called |-> FALSE,
                           hook |-> Undefined, stored |-> entityBuffer,
                           ret |-> entityBuffer]
            /\ UNCHANGED <<entityBuffer, toBufferCalls>>
       ELSE \E h \in HookResults :
               /\ toBufferCalls' = toBufferCalls + 1
               /\ entityBuffer' = h
               /\ lastGet' = [before |-> entityBuffer, called |-> TRUE,
                              hook |-> h, stored |-> entityBuffer',
                              ret |-> entityBuffer']
    /\ UNCHANGED <<ekind, epc, nSets>>
    /\ UNCHANGED <<mvars, cvars, tvars>>

\* A subclass stores a buffer: setBuffer(b) { this.buffer = b }
SetBuffer ==
    /\ epc = "ready"
    /\ nSets < MaxSets
    /\ nSets' = nSets + 1
    /\ \E b \in StoredBuffers : entityBuffer' = b
    /\ UNCHANGED <<ekind, epc, toBufferCalls, lastGet, nGets>>
    /\ UNCHANGED <<mvars, cvars, tvars>>

EntityNext ==
    \/ GetBuffer
    \/ SetBuffer

(*************************************************************************)
(* Specifications.                                                       *)
(*************************************************************************)
SpecMerkle == MerkleInit /\ [][MerkleNext]_vars

\* A step of the running constructor. new MerkleTree(...) is one
\* synchronous call: no mutation and no other call comes in before it
\* returns, and each of its steps is followed by the next.
ConstructorStep == ctorHashCalls = NotYet /\ MerkleNext

SpecMerkleFair == SpecMerkle /\ WF_vars(ConstructorStep)

SpecCursor == CursorInit /\ [][CursorNext]_vars

SpecView == CursorInit /\ [][ViewNext]_vars

SpecTemplate == TemplateInit /\ [][TemplateNext]_vars

SpecEntity == EntityInit /\ [][EntityNext]_vars

(*************************************************************************)
(* Properties of the MerkleTree, checked under SpecMerkle.               *)
(*************************************************************************)
Ready == mpc = "ready"

\* Left-to-right pairing of a list of even length: the parents
\* f(h[0]++h[1]), f(h[2]++h[3]), ...
LeftToRightPairs(fn, h) ==
    [k \in 1..(Len(h) \div 2) |-> ApplyHash(fn, h[2 * k - 1] \o h[2 * k])]

\* The reference binary Merkle root of 2^k leaves, level by level.
RECURSIVE ReferenceRoot(_, _)
ReferenceRoot(fn, level) ==
    IF Len(level) <= 1 THEN level[1]
    ELSE ReferenceRoot(fn, LeftToRightPairs(fn, level))

IsPowerOfTwo(n) == \E k \in 1..n : n = 2 ^ k

\* b is n zero bytes.
IsZeros(b, n) == Len(b) = n /\ \A j \in 1..n : b[j] = 0

\* All the leaves of h are the same.
Identical(h) == \A j \in 1..Len(h) : h[j] = h[1]

\* C1: when a full pass of the inner loop over a working list of even
\* length N ends, the working list is the N/2 parents of left-to-right
\* pairing, in order.
C1_PassPairsLeftToRight ==
    (mpc = "for" /\ loopI <= 1 /\ Len(passStart) % 2 = 0)
        => workHashes = LeftToRightPairs(hashFunction, passStart)

\* C2: the root of a tree built from 2^k leaves (k >= 1) is the reference
\* binary Merkle root of those leaves.
C2_RootIsReferenceRoot ==
    (Ready /\ IsPowerOfTwo(Len(ctorHashes)))
        => merkleRoot = ReferenceRoot(hashFunction, ctorHashes)

\* C3: the root of a tree built from two leaves [A, B] is f(A ++ B), got
\* with one reduction round, and getRoot() returns it.
C3_TwoLeavesRoot ==
    (Ready /\ Len(ctorHashes) = 2)
        => /\ merkleRoot = ApplyHash(hashFunction, ctorHashes[1] \o ctorHashes[2])
           /\ passes = 1
           /\ hashCalls = 1
           /\ \A k \in 1..Len(rets) :
                 rets[k].muts = 0 => rets[k].value = merkleRoot

C3_Witness ==
    /\ Ready
    /\ Len(ctorHashes) = 2
    /\ ctorHashes[1] = ctorHashes[2]
    /\ Len(rets) >= 1
    /\ rets[1].muts = 0

\* C4: a tree built from an empty leaf list has a merkleRoot of hashSize
\* zero bytes, getRoot() on the empty list returns hashSize zero bytes, and
\* the hash function is not invoked.
C4_EmptyRootIsZeros ==
    /\ (Ready /\ Len(ctorHashes) = 0)
          => (IsZeros(merkleRoot, hashSize) /\ hashCalls = 0)
    /\ \A k \in 1..Len(rets) :
          rets[k].leaves = 0 => IsZeros(rets[k].value, hashSize)

C4_Witness ==
    /\ Ready
    /\ Len(ctorHashes) = 0
    /\ hashSize # DEFAULT_HASH_SIZE
    /\ Len(rets) >= 1
    /\ rets[1].leaves = 0

\* C5: right after construction from n leaves, hashes.length is even: the
\* list is unchanged when n is even, and has one more entry, equal to the
\* last leaf, when n is odd.
C5_EvenAfterConstruction ==
    (Ready /\ nMut = 0)
        => /\ Len(hashes) % 2 = 0
           /\ Len(ctorHashes) % 2 = 0 => hashes = ctorHashes
           /\ Len(ctorHashes) % 2 = 1 =>
                 /\ Len(hashes) = Len(ctorHashes) + 1
                 /\ SubSeq(hashes, 1, Len(ctorHashes)) = ctorHashes
                 /\ hashes[Len(hashes)] = ctorHashes[Len(ctorHashes)]

C5_Witness ==
    /\ Ready
    /\ nMut = 0
    /\ Len(ctorHashes) = 3
    /\ ctorHashes[3] = TestHashFF
    /\ ctorHashes[2] = TestHash
    /\ Len(hashes) = 4

C23_NoHashingAfterConstruction ==
    ctorHashCalls # NotYet =>
        /\ hashCalls = ctorHashCalls
        /\ mpc = "ready"
        /\ merkleRoot # Undefined

\* Two calls with a mutation between them, after a construction that hashed.
C23_Witness ==
    /\ ctorHashCalls > 0
    /\ hashCalls = ctorHashCalls
    /\ Len(rets) = 2
    /\ rets[1].muts = 0
    /\ rets[2].muts = 1
    /\ rets[2].leaves > 0

\* C24: construction changes the caller's list only by appending one copy
\* of the last leaf when the number n of leaves is odd: at every point of
\* the construction and after it the first n entries are the caller's
\* leaves in order, and the reduction, which works on a copy, leaves the
\* list alone.
C24_CallerListOnlyPadded ==
    nMut = 0 =>
        /\ Len(hashes) >= Len(ctorHashes)
        /\ SubSeq(hashes, 1, Len(ctorHashes)) = ctorHashes
        /\ IF Len(ctorHashes) % 2 = 1 /\ mpc # "ctor"
           THEN hashes = ctorHashes \o <<ctorHashes[Len(ctorHashes)]>>
           ELSE hashes = ctorHashes

\* The reduction of five differing leaves is under way: the working list
\* has been overwritten and shortened, the caller's list only padded.
C24_Witness ==
    /\ nMut = 0
    /\ mpc = "for"
    /\ Len(ctorHashes) = 5
    /\ ctorHashes[4] # ctorHashes[5]
    /\ Len(hashes) = 6
    /\ Len(workHashes) = 4
    /\ workHashes[3] # hashes[3]

\* n rounded up to the next even number.
EvenUp(n) == n + (n % 2)

\* C25: constructing a tree from n >= 1 leaves terminates, with exactly one
\* hash left in the working list and after exactly m - 1 invocations of
\* the hash function, m being n rounded up to the next even number; every
\* iteration of the inner loop invokes it once and shortens the working
\* list by exactly one entry.
C25_ConstructionTerminates ==
    /\ []((ctorHashCalls # NotYet /\ Len(ctorHashes) >= 1) =>
             /\ Len(workHashes) = 1
             /\ ctorHashCalls = EvenUp(Len(ctorHashes)) - 1)
    /\ [][hashCalls' # hashCalls =>
             /\ hashCalls' = hashCalls + 1
             /\ Len(workHashes') = Len(workHashes) - 1]_vars
    /\ <>(ctorHashCalls # NotYet)

\* The construction from five leaves has returned after five invocations.
C25_Witness ==
    /\ ctorHashCalls = 5
    /\ Len(ctorHashes) = 5
    /\ Len(workHashes) = 1
    /\ passes = 3
    /\ mpc = "ready"

(*************************************************************************)
(* Properties of the cursors, checked under SpecCursor.                  *)
(*************************************************************************)
Constructed == cpc = "ready" /\ nOps = 0 /\ nMoves = 0

C9_OffsetAtLengthKept ==
    Constructed =>
        /\ (ctorArg.given /\ ctorArg.value = Len(buffer)) => offset = ctorArg.value
        /\ ~ctorArg.given => offset = 0

\* C10: a cursor constructed at an offset o with 0 <= o <= length that
\* then performs one read or write of n bytes is at offset o + n.
C10_OffsetAfterFirstOp ==
    (cpc = "ready" /\ nOps = 1 /\ nMoves = 0 /\ ~raised
        /\ ArgOffset(ctorArg) >= 0 /\ ArgOffset(ctorArg) <= Len(buffer))
        => offset = ArgOffset(ctorArg) + lastOp.width

\* The read that undoes a write.
ReadOf(writeName) ==
    CASE writeName = "writeUint8" -> "readUint8"
      [] writeName = "writeUint16" -> "readUint16"
      [] writeName = "writeUint32" -> "readUint32"
      [] writeName = "writeUint64" -> "readUint64"
      [] writeName = "writeBuffer" -> "readBuffer"
      [] OTHER -> "none"

IntegerWrites == {"writeUint8", "writeUint16", "writeUint32", "writeUint64"}

\* The last call is a Reader's read, made at the offset where the last write
\* began, of the kind that undoes that write, and that write lay inside the
\* buffer.
ReadBack ==
    /\ cpc = "ready"
    /\ ckind = "Reader"
    /\ lastWrite.name # "none"
    /\ lastOp.name = ReadOf(lastWrite.name)
    /\ lastOp.before = lastWrite.before
    /\ Inside(buffer, lastWrite.before, lastWrite.width)

\* C11: for K in {8, 16, 32, 64}, after writeUintK(v) by a Writer at an
\* offset o of the buffer with o + K/8 <= length, readUintK by a Reader at
\* offset o over the same buffer returns v.
C11_IntegerRoundTrip ==
    (ReadBack /\ lastWrite.name \in IntegerWrites)
        => (~raised /\ result.tag = "num" /\ result.val = lastWrite.val)

\* A uint64 whose bytes all differ has been written and read back.
C11_Witness ==
    /\ ReadBack
    /\ lastWrite.name = "writeUint64"
    /\ lastWrite.before = 1
    /\ lastWrite.val[1] # lastWrite.val[4]
    /\ result.val = lastWrite.val

\* The bytes a result of readBuffer shows: the view's window of the buffer.
ViewBytes(r) == SubSeq(buffer, r.from + 1, r.to)

\* C12: after writeBuffer(s) by a Writer at an offset o of the buffer with
\* o + |s| <= length, readBuffer(|s|) by a Reader at offset o over the same
\* buffer returns exactly the bytes of s, in order.
C12_BufferRoundTrip ==
    (ReadBack /\ lastWrite.name = "writeBuffer" /\ lastWrite.index = 0
        /\ lastOp.width = Len(lastWrite.val))
        => (~raised /\ result.tag = "view" /\ ViewBytes(result) = lastWrite.val)

\* Three differing bytes have been written past the start and read back.
C12_Witness ==
    /\ ReadBack
    /\ lastWrite.name = "writeBuffer"
    /\ ~lastWrite.indexGiven
    /\ lastWrite.before > 0
    /\ lastOp.width = 3
    /\ ViewBytes(result) = <<170, 187, 204>>

IntegerReads == {"readUint8", "readUint16", "readUint32", "readUint64"}

\* (v div 256^i) mod 256 for the number v held as 16-bit limbs, least
\* significant first.
ByteOf(v, i) ==
    IF i % 2 = 0 THEN v[(i \div 2) + 1] % 256 ELSE v[(i \div 2) + 1] \div 256

\* The last call is of one of the kinds named and lay inside the buffer.
LastCallInside(names) ==
    /\ cpc = "ready"
    /\ lastOp.name \in names
    /\ Inside(prevBuffer, lastOp.before, lastOp.width)

\* C13: a write of W bytes (W in {1, 2, 4, 8}) of the number v inside the
\* buffer at offset o stores (v div 256^i) mod 256 at position o + i for
\* i = 0..W-1 and changes no other byte; a read of W bytes inside the buffer
\* at offset o returns the sum of buffer[o + i] * 256^i and changes no byte.
C13_LittleEndianLayout ==
    /\ LastCallInside(IntegerWrites) =>
          /\ ~raised
          /\ lastWrite.name = lastOp.name
          /\ lastWrite.before = lastOp.before
          /\ Len(buffer) = Len(prevBuffer)
          /\ \A j \in 1..Len(buffer) :
                buffer[j] =
                    IF j > lastOp.before /\ j <= lastOp.before + lastOp.width
                    THEN ByteOf(lastWrite.val, j - 1 - lastOp.before)
                    ELSE prevBuffer[j]
    /\ LastCallInside(IntegerReads) =>
          /\ ~raised
          /\ result.tag = "num"
          /\ buffer = prevBuffer
          /\ IF lastOp.width = 1
             THEN result.val = <<buffer[lastOp.before + 1]>>
             ELSE /\ Len(result.val) = lastOp.width \div 2
                  /\ \A k \in 1..(lastOp.width \div 2) :
                        result.val[k] = buffer[lastOp.before + 2 * k - 1]
                                         + 256 * buffer[lastOp.before + 2 * k]

\* A uint32 of four differing bytes has been written between other bytes.
C13_Witness ==
    /\ LastCallInside({"writeUint32"})
    /\ lastOp.before = 1
    /\ Len(buffer) > 5
    /\ SubSeq(buffer, 1, 6) = <<0, 1, 2, 3, 4, 5>>
    /\ SubSeq(prevBuffer, 2, 5) # SubSeq(buffer, 2, 5)

\* C14: writeBuffer(buf, startIndex) with 0 <= startIndex <= buf.length and
\* room in the destination copies buf[startIndex], ..., buf[buf.length - 1]
\* in order to consecutive positions from the current offset on, writes
\* nothing else, and advances the offset by buf.length - startIndex (by
\* buf.length when startIndex is omitted).
C14_WriteBufferFromIndex ==
    LastCallInside({"writeBuffer"}) =>
        /\ ~raised
        /\ lastWrite.name = "writeBuffer"
        /\ lastWrite.before = lastOp.before
        /\ lastOp.width = Len(lastWrite.val) - lastWrite.index
        /\ (~lastWrite.indexGiven => lastOp.width = Len(lastWrite.val))
        /\ Len(buffer) = Len(prevBuffer)
        /\ \A j \in 1..Len(buffer) :
              buffer[j] =
                  IF j > lastOp.before /\ j <= lastOp.before + lastOp.width
                  THEN lastWrite.val[lastWrite.index + j - lastOp.before]
                  ELSE prevBuffer[j]
        /\ lastOp.after = lastOp.before + Len(lastWrite.val) - lastWrite.index

\* The last two of three bytes have been copied into the middle of a buffer.
C14_Witness ==
    /\ LastCallInside({"writeBuffer"})
    /\ lastWrite.index = 1
    /\ lastOp.before = 1
    /\ Len(buffer) >= 4
    /\ SubSeq(buffer, 1, 4) = <<0, 187, 204, 3>>
    /\ offset = 3

AllCalls == IntegerReads \cup IntegerWrites \cup {"readBuffer", "writeBuffer"}

\* The width of a call: 1, 2, 4, 8 for the integer calls, the size asked of
\* readBuffer, the number of bytes copied by writeBuffer.
WidthOf(op) ==
    CASE op.name \in {"readUint8", "writeUint8"} -> 1
      [] op.name \in {"readUint16", "writeUint16"} -> 2
      [] op.name \in {"readUint32", "writeUint32"} -> 4
      [] op.name \in {"readUint64", "writeUint64"} -> 8
      [] OTHER -> op.width

\* C19: from any offset p, assigned by the caller or not, a call whose
\* access lies inside the buffer starts at p and advances the offset by
\* exactly its width; after any sequence of such calls the offset is the
\* offset the sequence started from plus the sum of the widths.
C19_OffsetAdvancesByWidth ==
    /\ LastCallInside(AllCalls) =>
          /\ ~raised
          /\ lastOp.width = WidthOf(lastOp)
          /\ lastOp.after = lastOp.before + WidthOf(lastOp)
          /\ (lastOp.name = "readBuffer" =>
                 result = ViewResult(lastOp.before, lastOp.after))
          /\ (lastOp.name \in IntegerWrites \cup {"writeBuffer"} =>
                 lastWrite.before = lastOp.before)
    /\ (cpc = "ready" /\ run.fit) => offset = run.start + run.sum

\* Two calls have been made from an offset the caller assigned.
C19_Witness ==
    /\ cpc = "ready"
    /\ assigned
    /\ run.fit
    /\ run.start > 0
    /\ run.sum = 5
    /\ nOps = 2
    /\ offset = run.start + 5

WithinBuffer(o) == 0 <= o /\ o <= Len(buffer)

\* C20 as stated: in every state of a Reader or Writer, after construction
\* with any initial offset and after any sequence of read or write calls (the
\* caller assigning nothing to offset), 0 <= offset <= buffer length.
C20_OffsetWithinBuffer ==
    (cpc = "ready" /\ ~assigned) => WithinBuffer(offset)

\* C20 as the code has it: the offset of a Reader the caller has not assigned
\* to is never negative, and is at most the buffer length until the Reader
\* reads; the offset of any cursor that was set within 0..length stays within
\* it as long as every call since lay inside the buffer.
C20_OffsetWithinBufferWhileCallsFit ==
    /\ (cpc = "ready" /\ ckind = "Reader" /\ ~assigned) =>
          /\ offset >= 0
          /\ (run.sum = 0 => offset <= Len(buffer))
    /\ (cpc = "ready" /\ WithinBuffer(run.start) /\ run.fit) =>
          WithinBuffer(offset)

\* Two calls that fit have taken a cursor from inside the buffer to its end.
C20_Witness ==
    /\ cpc = "ready"
    /\ ~assigned
    /\ nOps = 2
    /\ run.fit
    /\ run.start = 1
    /\ run.sum > 2
    /\ offset = Len(buffer)

WideReads == {"readUint16", "readUint32", "readUint64"}

WideWrites == {"writeUint16", "writeUint32", "writeUint64"}

\* C26: readUint16, readUint32 and readUint64 advance the offset by their
\* width before they access the buffer: a call made where fewer than width
\* bytes remain from the offset raises a RangeError, returns nothing and
\* has nonetheless advanced the offset by the width; the call raises only
\* when its range is not inside the buffer, and changes no byte.
C26_FailedReadAdvances ==
    (cpc = "ready" /\ lastOp.name \in WideReads) =>
        /\ lastOp.width = WidthOf(lastOp)
        /\ lastOp.after = lastOp.before + WidthOf(lastOp)
        /\ (lastOp.before + WidthOf(lastOp) > Len(prevBuffer)) =>
               (raised /\ result = NoResult)
        /\ raised <=> ~Inside(prevBuffer, lastOp.before, WidthOf(lastOp))
        /\ buffer = prevBuffer

\* readUint32 at offset 1 of four bytes has failed: the offset is 5, past
\* the end of the buffer.
C26_Witness ==
    /\ cpc = "ready"
    /\ ckind = "Reader"
    /\ lastOp.name = "readUint32"
    /\ Len(buffer) = 4
    /\ lastOp.before = 1
    /\ raised
    /\ offset = 5

\* C27: writeUint16, writeUint32 and writeUint64 called where fewer than
\* width bytes remain from the offset raise a RangeError and leave the
\* offset and every byte of the buffer as they were; the call raises only
\* when its range is not inside the buffer.
C27_FailedWriteChangesNothing ==
    (cpc = "ready" /\ lastOp.name \in WideWrites) =>
        /\ (lastOp.before + WidthOf(lastOp) > Len(prevBuffer)) =>
               /\ raised
               /\ lastOp.after = lastOp.before
               /\ buffer = prevBuffer
        /\ raised <=> ~Inside(prevBuffer, lastOp.before, WidthOf(lastOp))

\* writeUint16 at offset 1 of two bytes has failed after a byte was
\* written: the offset is still 1 and the byte still there.
C27_Witness ==
    /\ cpc = "ready"
    /\ ckind = "Writer"
    /\ lastOp.name = "writeUint16"
    /\ Len(buffer) = 2
    /\ lastOp.before = 1
    /\ raised
    /\ offset = 1
    /\ nOps = 2
    /\ buffer[1] = 255
    /\ buffer = prevBuffer

\* The last call is of the kind named and began at or past the end of the
\* buffer.
LastCallPastEnd(name) ==
    /\ cpc = "ready"
    /\ lastOp.name = name
    /\ lastOp.before >= Len(prevBuffer)

\* What C28 says of writeUint8, writeBuffer and readUint8: at an offset at
\* or past the end nothing is raised, the bytes are dropped or no value is
\* returned, and the offset advances by one per byte.
ByteAccessPastEnd ==
    /\ LastCallPastEnd("writeUint8") =>
          (~raised /\ buffer = prevBuffer /\ lastOp.after = lastOp.before + 1)
    /\ LastCallPastEnd("writeBuffer") =>
          /\ ~raised
          /\ buffer = prevBuffer
          /\ lastOp.after = lastOp.before + (Len(lastWrite.val) - lastWrite.index)
          /\ lastOp.width = Len(lastWrite.val) - lastWrite.index
    /\ LastCallPastEnd("readUint8") =>
          (~raised /\ result = UndefinedResult /\ lastOp.after = lastOp.before + 1)

\* The last call is a readBuffer whose range ends past the end of the buffer.
ReadBufferPastEnd ==
    /\ cpc = "ready"
    /\ lastOp.name = "readBuffer"
    /\ lastOp.before + lastOp.width > Len(prevBuffer)

\* C28 as stated: single-byte and raw accesses beyond the end of the buffer
\* raise nothing and still advance the offset; readBuffer(n) with
\* offset + n > size returns fewer than n bytes while advancing by n.
C28_AccessPastEndFewerBytes ==
    /\ ByteAccessPastEnd
    /\ ReadBufferPastEnd =>
          /\ ~raised
          /\ lastOp.after = lastOp.before + lastOp.width
          /\ result.tag = "view"
          /\ result.to - result.from < lastOp.width

\* C28 as the code has it: the same, readBuffer(n) with offset + n > size
\* returning the bytes of its range that lie inside the buffer, fewer than
\* n when n >= 1; readBuffer(0) at an offset past the end returns the 0
\* bytes asked for.
C28_AccessPastEndClamped ==
    /\ ByteAccessPastEnd
    /\ ReadBufferPastEnd =>
          /\ ~raised
          /\ lastOp.after = lastOp.before + lastOp.width
          /\ result.tag = "view"
          /\ result.to = Len(buffer)
          /\ (lastOp.before >= 0 =>
                 result.from = (IF lastOp.before < Len(buffer)
                                THEN lastOp.before ELSE Len(buffer)))
          /\ (lastOp.width >= 1 => result.to - result.from < lastOp.width)
          /\ (lastOp.width = 0 => result.to - result.from = 0)

\* readBuffer(3) at offset 1 of two bytes has returned one byte and left
\* the offset at 4.
C28_Witness ==
    /\ cpc = "ready"
    /\ ckind = "Reader"
    /\ lastOp.name = "readBuffer"
    /\ lastOp.width = 3
    /\ lastOp.before = 1
    /\ Len(buffer) = 2
    /\ result = ViewResult(1, 2)
    /\ offset = 4
    /\ ~raised

(*************************************************************************)
(* Properties of the Template, checked under SpecTemplate.               *)
(*************************************************************************)
\* The declared width of a field: 1, 2, 4, 8 for the integer types, the
\* length of its data for the type buffer.
DeclaredWidth(f) ==
    CASE f.type = "uint8" -> 1
      [] f.type = "uint16" -> 2
      [] f.type = "uint32" -> 4
      [] f.type = "uint64" -> 8
      [] OTHER -> f.data.len

RECURSIVE SumDeclaredWidth(_)
SumDeclaredWidth(fs) ==
    IF fs = <<>> THEN 0
    ELSE SumDeclaredWidth(SubSeq(fs, 1, Len(fs) - 1)) + DeclaredWidth(fs[Len(fs)])

\* C15: for every list of fields, byteLength as computed at construction is
\* the sum of the fields' declared widths: 1, 2, 4, 8 for uint8, uint16,
\* uint32, uint64 whatever the number of bytes of the data, and the length
\* of the data for buffer fields.
C15_ByteLengthIsDeclaredWidths ==
    tpc \in {"constructed", "writing", "returned", "threw"}
        => byteLength = SumDeclaredWidth(fields)

Reversed(b) == [j \in 1..Len(b) |-> b[Len(b) - j + 1]]

\* Every integer field carries exactly as many bytes as its declared width.
WidthsMatch == \A i \in 1..Len(fields) : fields[i].data.len = DeclaredWidth(fields[i])

\* The output the fields stand for: a buffer field's bytes and a uint8
\* field's byte as they are, the bytes of a wider field in reversed order.
RECURSIVE ExpectedOutput(_)
ExpectedOutput(fs) ==
    IF fs = <<>> THEN <<>>
    ELSE ExpectedOutput(SubSeq(fs, 1, Len(fs) - 1))
            \o (IF fs[Len(fs)].type = "buffer"
                THEN DataBytes(fs[Len(fs)].data)
                ELSE Reversed(DataBytes(fs[Len(fs)].data)))

\* C16: for a template whose integer fields each carry exactly as many data
\* bytes as their declared width, toBuffer() returns the concatenation, in
\* field order, of each buffer field's bytes, each uint8 field's byte and
\* each wider field's data bytes in reversed order.
C16_ToBufferConcatenation ==
    (WidthsMatch /\ tpc \in {"returned", "threw"})
        => (tpc = "returned" /\ buffer = ExpectedOutput(fields))

IntegerField(i) == fields[i].type # "buffer"

\* The bytes of the output that lie in field i's place.
Emitted(i) ==
    SubSeq(buffer, starts[i] + 1, starts[i] + DeclaredWidth(fields[i]))

\* C17 as stated: the N bytes toBuffer() emits for an integer field of
\* declared width N equal the first N bytes of the field's data in the same
\* order (the platform being little-endian).
C17_EmittedInDataOrder ==
    tpc = "returned" =>
        \A i \in 1..Len(fields) :
            (IntegerField(i) /\ fields[i].data.len >= DeclaredWidth(fields[i]))
                => Emitted(i) = SubSeq(DataBytes(fields[i].data), 1,
                                       DeclaredWidth(fields[i]))

\* C17 as the code has it: the N bytes emitted for an integer field of
\* declared width N are the first N bytes of the storage backing its data
\* in reversed order (read big-endian, written little-endian) wherever
\* they lie inside the output; toBuffer() throws at an integer field whose
\* storage holds fewer than N bytes or, for N > 1, for which fewer than N
\* bytes are left of the output, and nowhere else.
C17_EmittedReversedFromStorage ==
    /\ tpc \in {"writing", "returned", "threw"} =>
          \A i \in 1..Len(starts) :
              IntegerField(i) =>
                  \A j \in 1..DeclaredWidth(fields[i]) :
                      (starts[i] + j <= Len(buffer)) =>
                          buffer[starts[i] + j] =
                              fields[i].data.storage[DeclaredWidth(fields[i]) - j + 1]
    /\ tpc \in {"writing", "returned", "threw"} =>
          \A i \in 1..Len(starts) :
              IntegerField(i) =>
                  /\ Len(fields[i].data.storage) >= DeclaredWidth(fields[i])
                  /\ (DeclaredWidth(fields[i]) > 1 =>
                         starts[i] + DeclaredWidth(fields[i]) <= Len(buffer))
    /\ tpc = "threw" =>
          /\ IntegerField(fieldI + 1)
          /\ \/ Len(fields[fieldI + 1].data.storage) < DeclaredWidth(fields[fieldI + 1])
             \/ /\ DeclaredWidth(fields[fieldI + 1]) > 1
                /\ offset + DeclaredWidth(fields[fieldI + 1]) > Len(buffer)

\* A uint32 field of four differing bytes has been emitted after a byte.
C17_Witness ==
    /\ tpc = "returned"
    /\ Len(fields) = 2
    /\ fields[2] = [type |-> "uint32", data |-> Whole(<<7, 6, 5, 4>>)]
    /\ buffer = <<1, 4, 5, 6, 7>>

\* The first field of fs, from field i with the writer at offset off of an
\* output of total bytes, at which a RangeError is due: an integer field
\* whose storage holds fewer bytes than its width, or one wider than a byte
\* that no longer fits the output. 0 when there is none.
RECURSIVE FirstRaising(_, _, _, _)
FirstRaising(fs, i, off, total) ==
    IF i > Len(fs) THEN 0
    ELSE IF fs[i].type = "buffer"
         THEN FirstRaising(fs, i + 1, off + fs[i].data.len, total)
         ELSE IF \/ Len(fs[i].data.storage) < DeclaredWidth(fs[i])
                 \/ DeclaredWidth(fs[i]) > 1 /\ off + DeclaredWidth(fs[i]) > total
              THEN i
              ELSE FirstRaising(fs, i + 1, off + DeclaredWidth(fs[i]), total)

\* C22 as stated: toBuffer() has no error path; for every list of fields,
\* an integer field whose data holds fewer bytes than its declared width
\* included, it returns a buffer and raises no error.
C22_ToBufferNeverRaises ==
    /\ tpc # "threw"
    /\ tpc \in {"writing", "returned"} => ~raised

\* C22 as the code has it: toBuffer() ends either by returning the buffer
\* or by a RangeError, and which of the two is fixed by the list of fields:
\* the error leaves it, with no buffer returned, at the first integer field
\* whose backing storage holds fewer bytes than the declared width or, for
\* the widths 2, 4 and 8, for which fewer than that many bytes are left of
\* the byteLength bytes of the output; with no such field it returns and
\* raises nothing.
C22_ToBufferRaisesAtFirstShortField ==
    /\ tpc = "threw" =>
          /\ raised
          /\ FirstRaising(fields, 1, 0, SumByteLength(fields)) = fieldI + 1
    /\ tpc = "returned" =>
          /\ ~raised
          /\ FirstRaising(fields, 1, 0, SumByteLength(fields)) = 0
          /\ Len(buffer) = byteLength

\* A uint16 field of one byte follows a buffer field: the error leaves
\* toBuffer() at the second field.
C22_Witness ==
    /\ tpc = "threw"
    /\ fields = <<[type |-> "buffer", data |-> Whole(<<3, 2>>)],
                  [type |-> "uint16", data |-> Whole(<<1>>)]>>
    /\ fieldI = 1
    /\ raised

\* The first N bytes of the storage backing field i's data, N its declared
\* width: positions 0..N-1 of the storage.
StorageHead(i) ==
    SubSeq(fields[i].data.storage, 1, DeclaredWidth(fields[i]))

\* Field i's place lies inside the output.
InsideOutput(i) == starts[i] + DeclaredWidth(fields[i]) <= Len(buffer)

\* C29: the bytes toBuffer() emits for an integer field are taken from
\* position 0 of the storage backing the field's data, not from where the
\* data begins: for data that is a window beginning further on in a larger
\* storage they are the storage's first bytes and differ from the field's
\* own, while a buffer field with the same data is emitted from the window.
C29_IntegerFieldsReadStorageStart ==
    tpc \in {"writing", "returned", "threw"} =>
        \A i \in 1..Len(starts) :
            InsideOutput(i) =>
                IF IntegerField(i)
                THEN /\ Emitted(i) = Reversed(StorageHead(i))
                     /\ (/\ fields[i].data.byteOffset > 0
                         /\ fields[i].data.len >= DeclaredWidth(fields[i])
                         /\ StorageHead(i) #
                               SubSeq(DataBytes(fields[i].data), 1,
                                      DeclaredWidth(fields[i])))
                            => Emitted(i) #
                                  Reversed(SubSeq(DataBytes(fields[i].data), 1,
                                                  DeclaredWidth(fields[i])))
                ELSE Emitted(i) = DataBytes(fields[i].data)

\* The window [3, 2] of the storage [9, 9, 3, 2] has been emitted as a
\* uint16 field and as a buffer field: 09 09, then 03 02.
C29_Witness ==
    /\ tpc = "returned"
    /\ fields = <<[type |-> "uint16", data |-> View(<<9, 9, 3, 2>>, 2, 2)],
                  [type |-> "buffer", data |-> View(<<9, 9, 3, 2>>, 2, 2)]>>
    /\ buffer = <<9, 9, 3, 2>>

\* Every byte of the output was stored to exactly once.
EachByteOnce == \A j \in 1..Len(storeCount) : storeCount[j] = 1

\* The bytes of the output from the writer's offset on were never stored to.
TrailingUnassigned ==
    \A j \in 1..Len(storeCount) : j > offset => storeCount[j] = 0

\* An integer field's data is longer, or shorter, than its declared width.
SomeLonger ==
    \E i \in 1..Len(fields) : fields[i].data.len > DeclaredWidth(fields[i])

SomeShorter ==
    \E i \in 1..Len(fields) : fields[i].data.len < DeclaredWidth(fields[i])

\* C30 as stated: toBuffer() returns a buffer of exactly byteLength bytes,
\* and the writer ends at offset byteLength with every output byte assigned
\* exactly once if and only if every integer field's data length equals its
\* declared width; when an integer field's data is longer than its width
\* the writer ends short of byteLength and the trailing bytes of the buffer
\* are never assigned.
C30_EndsAtByteLengthIffWidthsMatch ==
    tpc \in {"returned", "threw"} =>
        /\ tpc = "returned"
        /\ Len(buffer) = byteLength
        /\ (offset = byteLength /\ EachByteOnce) <=> WidthsMatch
        /\ SomeLonger => (offset < byteLength /\ TrailingUnassigned)

\* C30 as the code has it: a buffer toBuffer() returns has exactly
\* byteLength bytes, the writer has ended at the sum of the declared
\* widths, every byte before that offset was assigned exactly once and no
\* byte from it on. When every integer field's data length equals its
\* declared width toBuffer() returns, at offset byteLength with every byte
\* assigned once. The converse holds for lists in which no field's data is
\* shorter than its width, and in those a field with longer data leaves
\* the writer short of byteLength and the trailing bytes unassigned.
C30_WriterEndsAtDeclaredWidths ==
    /\ tpc = "returned" =>
          /\ Len(buffer) = byteLength
          /\ offset = SumDeclaredWidth(fields)
          /\ \A j \in 1..byteLength :
                 storeCount[j] = (IF j <= offset THEN 1 ELSE 0)
    /\ WidthsMatch => tpc # "threw"
    /\ (tpc = "returned" /\ WidthsMatch) =>
          (offset = byteLength /\ EachByteOnce)
    /\ (tpc = "returned" /\ ~SomeShorter) =>
          /\ (offset = byteLength /\ EachByteOnce) => WidthsMatch
          /\ SomeLonger => (offset < byteLength /\ TrailingUnassigned)

\* A uint16 field of four bytes has been emitted into an output of four:
\* the writer ended at 2 and the last two bytes were never assigned.
C30_Witness ==
    /\ tpc = "returned"
    /\ fields = <<[type |-> "uint16", data |-> Whole(<<7, 6, 5, 4>>)]>>
    /\ byteLength = 4
    /\ offset = 2
    /\ storeCount = <<1, 1, 0, 0>>
    /\ buffer[3] = 238

(*************************************************************************)
(* Properties of Block and Transaction, checked under SpecEntity.        *)
(*************************************************************************)
\* C18: over any sequence of getBuffer() calls the subclass's toBuffer() is
\* invoked at most once, and never when a buffer is already stored
\* (supplied at construction or set earlier); the first call without a
\* stored buffer stores the result of toBuffer(); every getBuffer() call
\* returns the stored buffer.
C18_GetBufferCachesToBuffer ==
    /\ toBufferCalls <= 1
    /\ nGets > 0 =>
          /\ lastGet.called <=> lastGet.before = Undefined
          /\ lastGet.called => lastGet.stored = lastGet.hook
          /\ ~lastGet.called => lastGet.stored = lastGet.before
          /\ lastGet.ret = lastGet.stored
          /\ lastGet.ret # Undefined

\* A Block has answered three getBuffer() calls from one toBuffer() call
\* that returned an empty buffer.
C18_Witness ==
    /\ ekind = "Block"
    /\ nGets = 3
    /\ nSets = 0
    /\ toBufferCalls = 1
    /\ ~lastGet.called
    /\ lastGet.ret = <<>>

\* C21: readBuffer(n) returns a view of the buffer, not a copy: a byte
\* stored afterwards in the buffer at a position inside the returned range
\* shows through the returned array, and a byte stored through the returned
\* array is stored in the buffer.
C21_ReadBufferReturnsView ==
    (cpc = "ready" /\ lastOp.name = "readBuffer" /\ lastStore.ops = nOps) =>
        /\ (lastStore.kind = "buffer"
               /\ result.from <= lastStore.at /\ lastStore.at < result.to) =>
              /\ result.tag = "view"
              /\ ViewBytes(result)[lastStore.at - result.from + 1] = lastStore.val
        /\ (lastStore.kind = "view"
               /\ 0 <= lastStore.at /\ lastStore.at < result.to - result.from) =>
              buffer[result.from + lastStore.at + 1] = lastStore.val

\* A byte stored through the last index of a three-byte array readBuffer
\* returned from inside the buffer has changed the buffer.
C21_Witness ==
    /\ cpc = "ready"
    /\ lastOp.name = "readBuffer"
    /\ lastStore.kind = "view"
    /\ lastStore.ops = nOps
    /\ lastStore.at = 2
    /\ result.from = 1
    /\ Len(buffer) > 4
    /\ buffer[4] = 85
    /\ prevBuffer[4] # 85

============================================================================
